---- MODULE Spec2Model ----
(***************************************************************************)
(* State-machine model of the two games of the repository:                 *)
(*   Projects/Project_2/Sea_Battle_Game.py  (Board, Player, Game)          *)
(*   Projects/Project_1/XO_Game.py          (get_best_move, main loop)     *)
(* Cells are pairs <<row, column>>; lists that the code only tests with    *)
(* "in" and only appends to when the element is absent (occupy_cells) are  *)
(* sets.                                                                   *)
(***************************************************************************)
EXTENDS Integers, Sequences, FiniteSets, TLC

VARIABLES
    BOARD_SIZE,      \* module constant BOARD_SIZE, the default of Game.size
    pc,              \* where the Sea Battle program is
    place,           \* locals of the running Game.random_place call
    user_board,      \* Game.player_user.board
    computer_board,  \* Game.player_ai.board
    num,             \* Game.game_cycle: num
    winner,          \* the side game_cycle congratulates
    last,            \* the last operation and its outcome
    xo_board,        \* XO_Game: board
    players,         \* XO_Game: players
    whose_move,      \* XO_Game: whose_move
    remaining_moves, \* XO_Game: remaining_moves
    cell_number,     \* XO_Game: cell_number
    xo_pc,           \* where the XO program is
    rounds           \* XO rounds finished, by a win or by a draw

sea_vars == <<BOARD_SIZE, pc, place, user_board, computer_board, num, winner>>

xo_vars == <<xo_board, players, whose_move, remaining_moves, cell_number, xo_pc, rounds>>

vars == <<sea_vars, last, xo_vars>>

----------------------------------------------------------------------------
(* Bounds of the exploration *)

\* largest grid explored (the program allows up to 10)
MaxSize == 6
\* draws of a placement pass that are explored apart from the accepted draw
\* nearest the top-left corner: rejected draws, and other accepted ones
PlaceFree == 2
\* rounds of a series between players that do not search
MaxRounds == 3
\* rounds of a series against a searching computer
MaxAIRounds == 1
\* blank cells of the boards get_best_move is run on by itself
MaxEmpty == 5
\* largest size Board() is called with on its own
MaxProbe == 40

(* Program constants *)

\* smallest board of the Board docstring
MinSize == 5
\* largest board of the Board docstring
LargestSize == 10
\* attempt budget of a placement pass
MaxAttempts == 2000
\* destroyed-ship count that ends game_cycle
WinCount == 7

Sizes == MinSize..MaxSize

----------------------------------------------------------------------------
(* Ship *)

Ship(coord, length, orientation) ==
    [coord |-> coord, length |-> length, orientation |-> orientation,
     health |-> length]

\* Ship.cells, as the list the property builds
cells(ship) ==
    [cell \in 1..ship.length |->
        IF ship.orientation # 0
        THEN <<ship.coord[1] + (cell - 1), ship.coord[2]>>
        ELSE <<ship.coord[1], ship.coord[2] + (cell - 1)>>]

Range(seq) == {seq[i] : i \in DOMAIN seq}

Abs(n) == IF n < 0 THEN -n ELSE n

----------------------------------------------------------------------------
(* Board *)

Grid(size) == (0..(size - 1)) \X (0..(size - 1))

\* the guard of Board.__init__: the chained comparison 5 > size > 10
BoardSizeException(size) == 5 > size /\ size > 10

Board(hide, size) ==
    [size |-> size, hide |-> hide, count |-> 0,
     mask |-> [cell \in Grid(size) |-> " "],
     occupy_cells |-> {}, ships |-> <<>>]

\* outside_board testing the far edges only
outside_board_far_edges(board, cell) ==
    ~(cell[1] < board.size /\ cell[2] < board.size)

outside_board(board, cell) ==
    ~((0 <= cell[1] /\ cell[1] < board.size) /\ (0 <= cell[2] /\ cell[2] < board.size))

\* the neighbours by a side only
around_ship_sides == {<<-1, 0>>, <<0, -1>>, <<0, 0>>, <<0, 1>>, <<1, 0>>}

around_ship ==
    {<<-1, -1>>, <<-1, 0>>, <<-1, 1>>,
     <<0, -1>>, <<0, 0>>, <<0, 1>>,
     <<1, -1>>, <<1, 0>>, <<1, 1>>}

\* Board.aureole that keeps in occupy_cells only what it appends
aureole_forgets(board, ship, visibility) ==
    LET added == {current_cell \in
                    {<<cell[1] + d[1], cell[2] + d[2]>> :
                        cell \in Range(cells(ship)), d \in around_ship} :
                    ~outside_board(board, current_cell)
                    /\ current_cell \notin board.occupy_cells}
    IN [board EXCEPT
          !.mask = [cell \in DOMAIN board.mask |->
                      IF visibility /\ cell \in added THEN "·" ELSE board.mask[cell]],
          !.occupy_cells = added]

\* Board.aureole: every neighbour of a ship cell that is on the board and not
\* yet in occupy_cells is appended (and drawn when visibility is set)
aureole(board, ship, visibility) ==
    LET added == {current_cell \in
                    {<<cell[1] + d[1], cell[2] + d[2]>> :
                        cell \in Range(cells(ship)), d \in around_ship} :
                    ~outside_board(board, current_cell)
                    /\ current_cell \notin board.occupy_cells}
    IN [board EXCEPT
          !.mask = [cell \in DOMAIN board.mask |->
                      IF visibility /\ cell \in added THEN "·" ELSE board.mask[cell]],
          !.occupy_cells = board.occupy_cells \cup added]

\* the first loop of add_ship testing the board's edge only
add_ship_raises_outside_only(board, ship) ==
    \E cell \in Range(cells(ship)) : outside_board(board, cell)

\* Board.add_ship: the first loop raises, or the second loop and aureole commit
add_ship_raises(board, ship) ==
    \E cell \in Range(cells(ship)) :
        outside_board(board, cell) \/ cell \in board.occupy_cells

\* the exception a call of add_ship ends with, "none" when it returns
add_ship_exc(board, ship) ==
    IF add_ship_raises(board, ship) THEN "WrongPositionShipException" ELSE "none"

\* add_ship with one loop, each cell committed as soon as it has passed the test
add_ship_cell_by_cell(board, ship) ==
    LET bad == {i \in DOMAIN cells(ship) :
                  outside_board(board, cells(ship)[i]) \/ cells(ship)[i] \in board.occupy_cells}
        sign == IF board.hide THEN " " ELSE "▓"
        passed == {cells(ship)[i] : i \in {j \in DOMAIN cells(ship) : \A k \in bad : j < k}}
        marked == [board EXCEPT
            !.mask = [cell \in DOMAIN board.mask |->
                        IF cell \in passed THEN sign ELSE board.mask[cell]],
            !.occupy_cells = board.occupy_cells \cup passed]
    IN IF bad # {}
       THEN [exc |-> "WrongPositionShipException", board |-> marked]
       ELSE [exc |-> "none",
             board |-> aureole([marked EXCEPT !.ships = Append(board.ships, ship)],
                               ship, FALSE)]

add_ship(board, ship) ==
    IF add_ship_exc(board, ship) # "none"
    THEN [exc |-> add_ship_exc(board, ship), board |-> board]
    ELSE LET sign == IF board.hide THEN " " ELSE "▓"
             marked == [board EXCEPT
                 !.mask = [cell \in DOMAIN board.mask |->
                             IF cell \in Range(cells(ship)) THEN sign
                             ELSE board.mask[cell]],
                 !.occupy_cells = board.occupy_cells \cup Range(cells(ship)),
                 !.ships = Append(board.ships, ship)]
         IN [exc |-> "none", board |-> aureole(marked, ship, FALSE)]

\* Board.begin that leaves occupy_cells as the placement filled it
begin_keeps_occupy_cells(board) == board

\* Board.begin
begin(board) == [board EXCEPT !.occupy_cells = {}]

\* Board.shot without the append of the cell to occupy_cells
shot_without_append(board, cell) ==
    IF outside_board(board, cell)
    THEN [exc |-> "BoardOutsideException", ret |-> FALSE, board |-> board]
    ELSE IF cell \in board.occupy_cells
    THEN [exc |-> "OccupiedCellException", ret |-> FALSE, board |-> board]
    ELSE LET struck == {i \in DOMAIN board.ships : cell \in Range(cells(board.ships[i]))}
         IN IF struck # {}
            THEN LET i == CHOOSE j \in struck : \A k \in struck : j <= k
                     ship == [board.ships[i] EXCEPT !.health = @ - 1]
                     hit == [board EXCEPT !.ships[i] = ship, !.mask[cell] = "X"]
                 IN IF ship.health = 0
                    THEN [exc |-> "none", ret |-> TRUE,
                          board |-> aureole([hit EXCEPT !.count = @ + 1], ship, TRUE)]
                    ELSE [exc |-> "none", ret |-> TRUE, board |-> hit]
            ELSE [exc |-> "none", ret |-> FALSE,
                  board |-> [board EXCEPT !.mask[cell] = "."]]

\* Board.shot with the destroyed ship's aureole left out
shot_without_aureole(board, cell) ==
    IF outside_board(board, cell)
    THEN [exc |-> "BoardOutsideException", ret |-> FALSE, board |-> board]
    ELSE IF cell \in board.occupy_cells
    THEN [exc |-> "OccupiedCellException", ret |-> FALSE, board |-> board]
    ELSE LET targeted == [board EXCEPT !.occupy_cells = @ \cup {cell}]
             struck == {i \in DOMAIN board.ships : cell \in Range(cells(board.ships[i]))}
         IN IF struck # {}
            THEN LET i == CHOOSE j \in struck : \A k \in struck : j <= k
                     ship == [board.ships[i] EXCEPT !.health = @ - 1]
                     hit == [targeted EXCEPT !.ships[i] = ship, !.mask[cell] = "X"]
                 IN IF ship.health = 0
                    THEN [exc |-> "none", ret |-> TRUE,
                          board |-> [hit EXCEPT !.count = @ + 1]]
                    ELSE [exc |-> "none", ret |-> TRUE, board |-> hit]
            ELSE [exc |-> "none", ret |-> FALSE,
                  board |-> [targeted EXCEPT !.mask[cell] = "."]]

\* Board.shot with the append to occupy_cells moved in front of the two tests
shot_append_first(board, cell) ==
    LET targeted == [board EXCEPT !.occupy_cells = @ \cup {cell}]
    IN IF outside_board(board, cell)
       THEN [exc |-> "BoardOutsideException", ret |-> FALSE, board |-> targeted]
       ELSE IF cell \in board.occupy_cells
       THEN [exc |-> "OccupiedCellException", ret |-> FALSE, board |-> targeted]
       ELSE LET struck == {i \in DOMAIN board.ships : cell \in Range(cells(board.ships[i]))}
            IN IF struck # {}
               THEN LET i == CHOOSE j \in struck : \A k \in struck : j <= k
                        ship == [board.ships[i] EXCEPT !.health = @ - 1]
                        hit == [targeted EXCEPT !.ships[i] = ship, !.mask[cell] = "X"]
                    IN IF ship.health = 0
                       THEN [exc |-> "none", ret |-> TRUE,
                             board |-> aureole([hit EXCEPT !.count = @ + 1], ship, TRUE)]
                       ELSE [exc |-> "none", ret |-> TRUE, board |-> hit]
               ELSE [exc |-> "none", ret |-> FALSE,
                     board |-> [targeted EXCEPT !.mask[cell] = "."]]

\* Board.shot: the exception raised ("none" when the shot is resolved), the
\* value returned and the board afterwards
shot(board, cell) ==
    IF outside_board(board, cell)
    THEN [exc |-> "BoardOutsideException", ret |-> FALSE, board |-> board]
    ELSE IF cell \in board.occupy_cells
    THEN [exc |-> "OccupiedCellException", ret |-> FALSE, board |-> board]
    ELSE LET targeted == [board EXCEPT !.occupy_cells = @ \cup {cell}]
             struck == {i \in DOMAIN board.ships : cell \in Range(cells(board.ships[i]))}
         IN IF struck # {}
            THEN LET i == CHOOSE j \in struck : \A k \in struck : j <= k
                     ship == [board.ships[i] EXCEPT !.health = @ - 1]
                     hit == [targeted EXCEPT !.ships[i] = ship, !.mask[cell] = "X"]
                 IN IF ship.health = 0
                    THEN [exc |-> "none", ret |-> TRUE,
                          board |-> aureole([hit EXCEPT !.count = @ + 1], ship, TRUE)]
                    ELSE [exc |-> "none", ret |-> TRUE, board |-> hit]
            ELSE [exc |-> "none", ret |-> FALSE,
                  board |-> [targeted EXCEPT !.mask[cell] = "."]]

----------------------------------------------------------------------------
(* Game.random_place and Game.random_board *)

ships == <<4, 3, 2, 3, 2, 2, 1, 1, 1, 1>>

\* ships[begin::] of random_place
catalog(size) ==
    LET first == IF size < 10 THEN 9 - size ELSE 0
    IN SubSeq(ships, first + 1, Len(ships))

\* the draws with the shortened range on the coordinate the ship runs along
DrawRangeAlongShip(self_size, ship_length) ==
    LET size == self_size - 1
    IN {<<1, r, c>> : r \in 0..(size - ship_length), c \in 0..size}
       \cup {<<0, r, c>> : r \in 0..size, c \in 0..(size - ship_length)}

\* the draws <<direction, row, column>> the two randint branches can produce
DrawRange(self_size, ship_length) ==
    LET size == self_size - 1
    IN {<<1, r, c>> : r \in 0..size, c \in 0..(size - ship_length)}
       \cup {<<0, r, c>> : r \in 0..(size - ship_length), c \in 0..size}

DrawnShip(draw, ship_length) == Ship(<<draw[2], draw[3]>>, ship_length, draw[1])

AcceptedDraws(board, ship_length) ==
    {d \in DrawRange(board.size, ship_length) :
        ~add_ship_raises(board, DrawnShip(d, ship_length))}

RejectedDraws(board, ship_length) ==
    {d \in DrawRange(board.size, ship_length) :
        add_ship_raises(board, DrawnShip(d, ship_length))}

\* the accepted draw nearest the top-left corner, vertical before horizontal
DrawKey(board, d) == (d[2] * board.size + d[3]) * 2 + (1 - d[1])

FirstAccepted(board, ship_length) ==
    LET accepted == AcceptedDraws(board, ship_length)
    IN {d \in accepted : \A e \in accepted : DrawKey(board, d) <= DrawKey(board, e)}

\* the first and the last of a set of draws
Ends(board, draws) ==
    {d \in draws :
        \/ \A e \in draws : DrawKey(board, d) <= DrawKey(board, e)
        \/ \A e \in draws : DrawKey(board, d) >= DrawKey(board, e)}

\* accepted draws explored: the nearest one, and when the exploration is wide
\* and the pass has budget left, the first and the last of either direction
ExploredDraws(board, ship_length, free, wide) ==
    LET accepted == AcceptedDraws(board, ship_length)
    IN IF wide /\ free > 0
       THEN Ends(board, {d \in accepted : d[1] = 1})
            \cup Ends(board, {d \in accepted : d[1] = 0})
       ELSE FirstAccepted(board, ship_length)

\* a pass that starts on the board the pass before has left
NewPassOnOldBoard(hide) ==
    [board |-> place.board, idx |-> 1, attempts |-> 0, free |-> PlaceFree]

\* the locals of random_place when the loops are entered
NewPass(hide) ==
    [board |-> Board(hide, BOARD_SIZE), idx |-> 1, attempts |-> 0, free |-> PlaceFree]

NoShip == Ship(<<0, 0>>, 0, 0)

Hide(who) == who = "computer_board"

\* one iteration of the while loop whose ship add_ship accepts; after the last
\* ship: board.begin(), return True, and random_board returns the board
PlaceAccept(who, wide) ==
    /\ pc = who
    /\ place.attempts < MaxAttempts
    /\ LET ship_length == catalog(BOARD_SIZE)[place.idx]
       IN \E d \in ExploredDraws(place.board, ship_length, place.free, wide) :
            LET ship == DrawnShip(d, ship_length)
                placed == add_ship(place.board, ship).board
                done == place.idx = Len(catalog(BOARD_SIZE))
                result == IF done THEN begin(placed) ELSE placed
            IN /\ last' = [op |-> "add_ship", who |-> who, ship |-> ship,
                           cell |-> <<0, 0>>, exc |-> "none", ret |-> done]
               /\ IF done
                  THEN /\ IF who = "user_board"
                          THEN /\ user_board' = result
                               /\ pc' = "computer_board"
                               /\ place' = NewPass(TRUE)
                               /\ UNCHANGED computer_board
                          ELSE /\ computer_board' = result
                               /\ pc' = "cast_lots"
                               /\ place' = [place EXCEPT !.board = result,
                                               !.attempts = @ + 1]
                               /\ UNCHANGED user_board
                  ELSE /\ place' = [board |-> placed, idx |-> place.idx + 1,
                                    attempts |-> place.attempts + 1,
                                    free |-> IF d \in FirstAccepted(place.board, ship_length)
                                             THEN place.free ELSE place.free - 1]
                       /\ UNCHANGED <<pc, user_board, computer_board>>
    /\ UNCHANGED <<BOARD_SIZE, num, winner>>
    /\ UNCHANGED xo_vars

\* rejected draws explored one at a time: the one nearest the top-left corner
\* and the one farthest from it
ExploredRejects(board, ship_length) == Ends(board, RejectedDraws(board, ship_length))

\* one iteration of the while loop whose ship add_ship rejects
PlaceReject(who) ==
    /\ pc = who
    /\ place.attempts < MaxAttempts
    /\ place.free > 0
    /\ LET ship_length == catalog(BOARD_SIZE)[place.idx]
       IN \E d \in ExploredRejects(place.board, ship_length) :
            LET res == add_ship(place.board, DrawnShip(d, ship_length))
            IN /\ place' = [place EXCEPT !.board = res.board,
                                         !.attempts = @ + 1, !.free = @ - 1]
               /\ last' = [op |-> "add_ship", who |-> who,
                           ship |-> DrawnShip(d, ship_length), cell |-> <<0, 0>>,
                           exc |-> res.exc, ret |-> FALSE]
    /\ UNCHANGED <<BOARD_SIZE, pc, user_board, computer_board, num, winner>>
    /\ UNCHANGED xo_vars

\* the iterations left in the attempt budget, every one of them drawing a ship
\* that add_ship rejects
PlaceRejectRun(who) ==
    /\ pc = who
    /\ place.attempts < MaxAttempts
    /\ LET ship_length == catalog(BOARD_SIZE)[place.idx]
           rejected == RejectedDraws(place.board, ship_length)
       IN /\ rejected # {}
          /\ LET ship == DrawnShip(CHOOSE d \in rejected : TRUE, ship_length)
                 res == add_ship(place.board, ship)
             IN /\ last' = [op |-> "add_ship", who |-> who, ship |-> ship,
                            cell |-> <<0, 0>>, exc |-> res.exc, ret |-> FALSE]
                /\ place' = [place EXCEPT !.board = res.board,
                                          !.attempts = MaxAttempts]
    /\ UNCHANGED <<BOARD_SIZE, pc, user_board, computer_board, num, winner>>
    /\ UNCHANGED xo_vars

\* attempts > 2000: random_place returns False and random_board calls it again
PlaceExhausted(who) ==
    /\ pc = who
    /\ place.attempts + 1 > MaxAttempts
    /\ place' = NewPass(Hide(who))
    /\ last' = [op |-> "random_place", who |-> who, ship |-> NoShip,
                cell |-> <<0, 0>>, exc |-> "none", ret |-> FALSE]
    /\ UNCHANGED <<BOARD_SIZE, pc, user_board, computer_board, num, winner>>
    /\ UNCHANGED xo_vars

----------------------------------------------------------------------------
(* Player.move and Game.game_cycle *)

\* AI.requesting_coordinates: two randint(0, BOARD_SIZE - 1)
AITargets == Grid(BOARD_SIZE)

\* User.requesting_coordinates: a digit for the row, one of the first
\* BOARD_SIZE letters for the column; Cell(int(row) - 1, column)
UserTargets == ((-1)..8) \X (0..(BOARD_SIZE - 1))

TargetKey(cell) == cell[1] * 16 + cell[2]

Least(cellset) == {c \in cellset : \A e \in cellset : TargetKey(c) <= TargetKey(e)}

Greatest(cellset) == {c \in cellset : \A e \in cellset : TargetKey(c) >= TargetKey(e)}

\* the targets explored of those a player can name: the first cell in reading
\* order that can still be shot at (when wide, the last one too), and the first
\* and the last of the cells outside the board and of the cells already in
\* occupy_cells
ExploredTargets(board, targets, wide) ==
    LET outside == {c \in targets : outside_board(board, c)}
        occupied == {c \in targets \ outside : c \in board.occupy_cells}
        open == (targets \ outside) \ occupied
    IN Least(open) \cup (IF wide THEN Greatest(open) ELSE {})
       \cup Least(outside) \cup Greatest(outside)
       \cup Least(occupied) \cup Greatest(occupied)

\* the ship of a board that has a cell, NoShip when there is none
ShipAt(board, cell) ==
    LET struck == {i \in DOMAIN board.ships : cell \in Range(cells(board.ships[i]))}
    IN IF struck = {} THEN NoShip
       ELSE board.ships[CHOOSE j \in struck : \A k \in struck : j <= k]

\* Game.cast_lots, called by game_cycle
CastLots ==
    /\ pc = "cast_lots"
    /\ num' \in {0, 1}
    /\ pc' = "game_cycle"
    /\ last' = [op |-> "cast_lots", who |-> "none", ship |-> NoShip,
                cell |-> <<0, 0>>, exc |-> "none", ret |-> FALSE]
    /\ UNCHANGED <<BOARD_SIZE, place, user_board, computer_board, winner>>
    /\ UNCHANGED xo_vars

\* the end of an iteration without the step back of num for an extra move
cycle_end_without_extra(n, another_move, ai_board_count, user_board_count) ==
    IF ai_board_count = WinCount
    THEN [pc |-> "over", winner |-> "user", num |-> n]
    ELSE IF user_board_count = WinCount
    THEN [pc |-> "over", winner |-> "computer", num |-> n]
    ELSE [pc |-> "game_cycle", winner |-> "none", num |-> n + 1]

\* the end of an iteration of game_cycle, after move() has returned
\* another_move: num is stepped back for an extra move, a count of 7 on either
\* board breaks the loop, otherwise num is stepped on
cycle_end(n, another_move, ai_board_count, user_board_count) ==
    LET counted == IF another_move THEN n - 1 ELSE n
    IN IF ai_board_count = WinCount
       THEN [pc |-> "over", winner |-> "user", num |-> counted]
       ELSE IF user_board_count = WinCount
       THEN [pc |-> "over", winner |-> "computer", num |-> counted]
       ELSE [pc |-> "game_cycle", winner |-> "none", num |-> counted + 1]

\* one pass of the try block of Player.move inside an iteration of game_cycle:
\* a GameException leaves the player in the while loop of move; a resolved
\* shot returns to game_cycle, which finishes the iteration. The user explores
\* the wide targets, the computer the narrow ones.
Move(who) ==
    /\ pc = "game_cycle"
    /\ (num % 2 # 0) <=> (who = "user")
    /\ LET opponent == IF who = "user" THEN computer_board ELSE user_board
           targets == IF who = "user" THEN UserTargets ELSE AITargets
       IN \E target \in ExploredTargets(opponent, targets, who = "user") :
            LET res == shot(opponent, target)
                after_user == IF who = "user" THEN user_board ELSE res.board
                after_computer == IF who = "user" THEN res.board ELSE computer_board
                end == cycle_end(num, res.ret, after_computer.count, after_user.count)
            IN /\ last' = [op |-> "shot", who |-> who, ship |-> ShipAt(opponent, target),
                           cell |-> target, exc |-> res.exc, ret |-> res.ret]
               /\ user_board' = after_user
               /\ computer_board' = after_computer
               /\ IF res.exc # "none"
                  THEN UNCHANGED <<pc, num, winner>>
                  ELSE /\ pc' = end.pc
                       /\ winner' = end.winner
                       /\ num' = end.num
    /\ UNCHANGED <<BOARD_SIZE, place>>
    /\ UNCHANGED xo_vars

----------------------------------------------------------------------------
(* XO_Game.py: the board and the search *)

\* stand-ins, among the cell numbers, for the None of a terminal result and of
\* the initial cell_number, and for the '' best_move starts from
None == -1

EmptyStr == -2

\* stand-in for float('Inf'): above every score
Inf == 1000

\* get_board: the keys 1..9 in insertion order, every cell blank
get_board == [c \in 1..9 |-> " "]

\* cast_lots: the loop ends with two different sums, either of them the larger
cast_lots == {<<"X", "0">>, <<"0", "X">>}

\* the blank cells from the last key of the dictionary to the first
get_empty_cells_descending(board_mask) ==
    SelectSeq(<<9, 8, 7, 6, 5, 4, 3, 2, 1>>, LAMBDA c : board_mask[c] = " ")

\* get_empty_cells: the blank cells in the order of the dictionary
get_empty_cells(board_mask) ==
    SelectSeq(<<1, 2, 3, 4, 5, 6, 7, 8, 9>>, LAMBDA c : board_mask[c] = " ")

win_lines ==
    <<<<1, 2, 3>>, <<4, 5, 6>>, <<7, 8, 9>>, <<1, 4, 7>>,
      <<2, 5, 8>>, <<3, 6, 9>>, <<1, 5, 9>>, <<3, 5, 7>>>>

get_winning(board_mask) ==
    \E l \in DOMAIN win_lines :
        \/ \A k \in 1..3 : board_mask[win_lines[l][k]] = "X"
        \/ \A k \in 1..3 : board_mask[win_lines[l][k]] = "0"

\* ai_easy: random.choice(empty_cells), the cells it can return
ai_easy(empty_cells) == Range(empty_cells)

win_cells == {1, 3, 5, 7, 9}

\* the list get_best_move returns, and the board as the call leaves it
Result(score, move, board_mask) == [score |-> score, move |-> move, board |-> board_mask]

\* best_score and best_move compared with the score of a line instead of Inf
best_start_at_ten(player) ==
    [score |-> IF player THEN -10 ELSE 10, move |-> EmptyStr]

\* best_move and best_score before the loop
best_start(player) ==
    [score |-> IF player THEN -Inf ELSE Inf, move |-> EmptyStr]

\* a later cell replacing the best one on an equal score too
improves_or_ties(player, res, best_score) ==
    (player /\ res >= best_score) \/ (~player /\ res <= best_score)

\* the two tests of the loop body: the maximizing side (player) takes a
\* strictly greater score, the minimizing side a strictly smaller one
improves(player, res, best_score) ==
    (player /\ res > best_score) \/ (~player /\ res < best_score)

RECURSIVE get_best_move(_, _)
RECURSIVE try_cells(_, _, _, _, _)

\* get_best_move with the two scores of a finished game exchanged
get_best_move_signs_exchanged(board_mask, player) ==
    LET rm_cells == get_empty_cells(board_mask)
        game_over == get_winning(board_mask)
    IN IF game_over /\ player THEN Result(10, None, board_mask)
       ELSE IF game_over /\ ~player THEN Result(-10, None, board_mask)
       ELSE IF rm_cells = <<>> THEN Result(0, None, board_mask)
       ELSE try_cells(board_mask, player, rm_cells, 1, best_start(player))

\* get_best_move scoring a finished game 10 whoever is to move
get_best_move_unsigned(board_mask, player) ==
    LET rm_cells == get_empty_cells(board_mask)
        game_over == get_winning(board_mask)
    IN IF game_over THEN Result(10, None, board_mask)
       ELSE IF rm_cells = <<>> THEN Result(0, None, board_mask)
       ELSE try_cells(board_mask, player, rm_cells, 1, best_start(player))

\* the for loop of get_best_move with the recursive call made for the same
\* side, not for the opponent
try_cells_same_side(board_mask, player, cells_empty, i, best) ==
    IF i > Len(cells_empty) THEN Result(best.score, best.move, board_mask)
    ELSE LET cell == cells_empty[i]
             sign == players[IF player THEN 1 ELSE 0].sign
             sub == get_best_move([board_mask EXCEPT ![cell] = sign], player)
             res == sub.score
             unmarked == [sub.board EXCEPT ![cell] = " "]
         IN IF improves(player, res, best.score)
            THEN try_cells(unmarked, player, cells_empty, i + 1,
                           [score |-> res, move |-> cell])
            ELSE try_cells(unmarked, player, cells_empty, i + 1, best)

\* the for loop of get_best_move with the trial mark left on the board
try_cells_without_unmark(board_mask, player, cells_empty, i, best) ==
    IF i > Len(cells_empty) THEN Result(best.score, best.move, board_mask)
    ELSE LET cell == cells_empty[i]
             sign == players[IF player THEN 1 ELSE 0].sign
             sub == get_best_move([board_mask EXCEPT ![cell] = sign], ~player)
             res == sub.score
         IN IF improves(player, res, best.score)
            THEN try_cells(sub.board, player, cells_empty, i + 1,
                           [score |-> res, move |-> cell])
            ELSE try_cells(sub.board, player, cells_empty, i + 1, best)

\* the for loop of get_best_move from the i-th empty cell on: the cell is
\* marked on the board itself, the other side's search runs on it, and the
\* mark is removed again
try_cells(board_mask, player, cells_empty, i, best) ==
    IF i > Len(cells_empty) THEN Result(best.score, best.move, board_mask)
    ELSE LET cell == cells_empty[i]
             sign == players[IF player THEN 1 ELSE 0].sign
             sub == get_best_move([board_mask EXCEPT ![cell] = sign], ~player)
             res == sub.score
             unmarked == [sub.board EXCEPT ![cell] = " "]
         IN IF improves(player, res, best.score)
            THEN try_cells(unmarked, player, cells_empty, i + 1,
                           [score |-> res, move |-> cell])
            ELSE try_cells(unmarked, player, cells_empty, i + 1, best)

\* get_best_move(board_mask, player): player (True, key 1 of players) is the
\* computer and maximizes
get_best_move(board_mask, player) ==
    LET rm_cells == get_empty_cells(board_mask)
        game_over == get_winning(board_mask)
    IN IF game_over /\ player THEN Result(-10, None, board_mask)
       ELSE IF game_over /\ ~player THEN Result(10, None, board_mask)
       ELSE IF rm_cells = <<>> THEN Result(0, None, board_mask)
       ELSE try_cells(board_mask, player, rm_cells, 1, best_start(player))

----------------------------------------------------------------------------
(* XO_Game.py: the series *)

\* who_playing0 and who_playing1 of the game types
who_playing(game_type) ==
    IF game_type = 0 THEN <<"human", "ai_easy">>
    ELSE IF game_type = 1 THEN <<"human", "ai_normal">>
    ELSE IF game_type = 2 THEN <<"human", "human">>
    ELSE IF game_type = 3 THEN <<"human", "ai_impossible">>
    ELSE <<"ai_easy", "ai_easy">>

\* the players dictionary (without the names) after the first cast_lots
Players(game_type, lots) ==
    [p \in {0, 1} |->
        [who_playing |-> who_playing(game_type)[p + 1], win |-> 0, sign |-> lots[p + 1]]]

\* the while condition tested with <= in place of <
series_continues_at_three(ps) == Abs(ps[0].win - ps[1].win) <= 3

\* the condition of the while loop
series_continues(ps) == Abs(ps[0].win - ps[1].win) < 3

\* the branch of a winning move without the exchange of the signs
won_without_swap(ps, mover) == [ps EXCEPT ![mover].win = @ + 1]

\* the branch of a winning move: the winner takes "X" if it held "0", and its
\* win count goes up
won(ps, mover) ==
    LET swapped == IF ps[mover].sign = "0"
                   THEN [ps EXCEPT ![0].sign = ps[1].sign, ![1].sign = ps[0].sign]
                   ELSE ps
    IN [swapped EXCEPT ![mover].win = @ + 1]

NoMove == [op |-> "none", who |-> 0, board |-> get_board, score |-> 0, move |-> None]

\* the end of the iteration with the test of the full board made before the
\* test of the completed line
LoopEndDrawFirst(board_now, cell) ==
    LET sign == players[whose_move].sign
        marked == [c \in DOMAIN board_now \cup {cell} |->
                      IF c = cell THEN sign ELSE board_now[c]]
    IN /\ cell_number' = cell
       /\ IF remaining_moves - 1 = 0
          THEN /\ remaining_moves' = 9
               /\ xo_board' = get_board
               /\ rounds' = rounds + 1
               /\ \E lots \in cast_lots :
                    /\ players' = [players EXCEPT ![0].sign = lots[1], ![1].sign = lots[2]]
                    /\ whose_move' = IF lots[1] = "X" THEN 0 ELSE 1
          ELSE IF get_winning(marked)
          THEN /\ players' = won(players, whose_move)
               /\ remaining_moves' = 9
               /\ xo_board' = get_board
               /\ rounds' = rounds + 1
               /\ UNCHANGED whose_move
          ELSE /\ whose_move' = IF whose_move # 0 THEN 0 ELSE 1
               /\ remaining_moves' = remaining_moves - 1
               /\ xo_board' = marked
               /\ UNCHANGED <<players, rounds>>
       /\ xo_pc' = IF series_continues(players') THEN "loop" ELSE "over"

\* the end of the iteration with a draw that leaves the turn with the player
\* the hand-over has given it to, whatever the new lots say
LoopEndDrawKeepsTurn(board_now, cell) ==
    LET sign == players[whose_move].sign
        marked == [c \in DOMAIN board_now \cup {cell} |->
                      IF c = cell THEN sign ELSE board_now[c]]
    IN /\ cell_number' = cell
       /\ IF get_winning(marked)
          THEN /\ players' = won(players, whose_move)
               /\ remaining_moves' = 9
               /\ xo_board' = get_board
               /\ rounds' = rounds + 1
               /\ UNCHANGED whose_move
          ELSE IF remaining_moves - 1 = 0
          THEN /\ remaining_moves' = 9
               /\ xo_board' = get_board
               /\ rounds' = rounds + 1
               /\ \E lots \in cast_lots :
                    players' = [players EXCEPT ![0].sign = lots[1], ![1].sign = lots[2]]
               /\ whose_move' = IF whose_move # 0 THEN 0 ELSE 1
          ELSE /\ whose_move' = IF whose_move # 0 THEN 0 ELSE 1
               /\ remaining_moves' = remaining_moves - 1
               /\ xo_board' = marked
               /\ UNCHANGED <<players, rounds>>
       /\ xo_pc' = IF series_continues(players') THEN "loop" ELSE "over"

\* from the marking of the chosen cell to the end of the iteration, and the
\* test of the while condition that follows it; board_now is the board as the
\* choice of the cell left it
LoopEnd(board_now, cell) ==
    LET sign == players[whose_move].sign
        marked == [c \in DOMAIN board_now \cup {cell} |->
                      IF c = cell THEN sign ELSE board_now[c]]
    IN /\ cell_number' = cell
       /\ IF get_winning(marked)
          THEN /\ players' = won(players, whose_move)
               /\ remaining_moves' = 9
               /\ xo_board' = get_board
               /\ rounds' = rounds + 1
               /\ UNCHANGED whose_move
          ELSE IF remaining_moves - 1 = 0
          THEN /\ remaining_moves' = 9
               /\ xo_board' = get_board
               /\ rounds' = rounds + 1
               /\ \E lots \in cast_lots :
                    /\ players' = [players EXCEPT ![0].sign = lots[1], ![1].sign = lots[2]]
                    /\ whose_move' = IF lots[1] = "X" THEN 0 ELSE 1
          ELSE /\ whose_move' = IF whose_move # 0 THEN 0 ELSE 1
               /\ remaining_moves' = remaining_moves - 1
               /\ xo_board' = marked
               /\ UNCHANGED <<players, rounds>>
       /\ xo_pc' = IF series_continues(players') THEN "loop" ELSE "over"

\* an iteration of the while loop is entered; cap bounds the rounds played
Looping(cap) ==
    /\ xo_pc = "loop"
    /\ series_continues(players)
    /\ rounds < cap

Playing(who) == players[whose_move].who_playing = who

\* a human names a free cell
HumanMove(cap) ==
    /\ Looping(cap)
    /\ Playing("human")
    /\ \E cell \in Range(get_empty_cells(xo_board)) :
          /\ LoopEnd(xo_board, cell)
          /\ last' = [op |-> "human", who |-> whose_move, board |-> xo_board,
                      score |-> 0, move |-> cell]
    /\ UNCHANGED sea_vars

\* a human enters 0 and answers the question that follows: break, or continue
HumanQuit(cap) ==
    /\ Looping(cap)
    /\ Playing("human")
    /\ cell_number' = 0
    /\ \E giving_up \in {0, 1} :
          xo_pc' = IF giving_up # 0 THEN "over" ELSE xo_pc
    /\ last' = [op |-> "quit", who |-> whose_move, board |-> xo_board,
                score |-> 0, move |-> 0]
    /\ UNCHANGED <<xo_board, players, whose_move, remaining_moves, rounds>>
    /\ UNCHANGED sea_vars

EasyMove(cap) ==
    /\ Looping(cap)
    /\ Playing("ai_easy")
    /\ \E cell \in ai_easy(get_empty_cells(xo_board)) :
          /\ LoopEnd(xo_board, cell)
          /\ last' = [op |-> "ai_easy", who |-> whose_move, board |-> xo_board,
                      score |-> 0, move |-> cell]
    /\ UNCHANGED sea_vars

\* cell_number = get_best_move(board)[1], and the rest of the iteration
SearchMove ==
    \E found \in {get_best_move(xo_board, TRUE)} :
       /\ LoopEnd(found.board, found.move)
       /\ last' = [op |-> "search", who |-> whose_move, board |-> xo_board,
                   score |-> found.score, move |-> found.move]

NormalMove(cap) ==
    /\ Looping(cap)
    /\ Playing("ai_normal")
    /\ IF remaining_moves >= 8
       THEN \E cell \in win_cells \cap Range(get_empty_cells(xo_board)) :
              /\ LoopEnd(xo_board, cell)
              /\ last' = [op |-> "random", who |-> whose_move, board |-> xo_board,
                          score |-> 0, move |-> cell]
       ELSE SearchMove
    /\ UNCHANGED sea_vars

ImpossibleMove(cap) ==
    /\ Looping(cap)
    /\ Playing("ai_impossible")
    /\ SearchMove
    /\ UNCHANGED sea_vars

----------------------------------------------------------------------------

\* the XO program not started
XOIdle ==
    /\ xo_board = get_board
    /\ players = Players(2, <<"X", "0">>)
    /\ whose_move = 0
    /\ remaining_moves = 9
    /\ cell_number = None
    /\ xo_pc = "idle"
    /\ rounds = 0

InitSea ==
    /\ XOIdle
    /\ BOARD_SIZE \in Sizes
    /\ ~BoardSizeException(BOARD_SIZE)
    /\ pc = "user_board"
    /\ place = [board |-> Board(FALSE, BOARD_SIZE), idx |-> 1, attempts |-> 0,
                free |-> PlaceFree]
    /\ user_board = Board(FALSE, BOARD_SIZE)
    /\ computer_board = Board(TRUE, BOARD_SIZE)
    /\ num = 0
    /\ winner = "none"
    /\ last = [op |-> "none", who |-> "none", ship |-> NoShip, cell |-> <<0, 0>>,
               exc |-> "none", ret |-> FALSE]

\* Game.random_board(): the first call of Game.__init__, its draws explored
\* widely
InitPlace == InitSea

NextPlace ==
    \/ PlaceAccept("user_board", TRUE)
    \/ PlaceReject("user_board")
    \/ PlaceRejectRun("user_board")
    \/ PlaceExhausted("user_board")

SpecPlace == InitPlace /\ [][NextPlace]_vars

\* Board(hide, size) called on its own with a size of 0..MaxProbe
ProbeSizes == 0..MaxProbe

InitBoard ==
    /\ XOIdle
    /\ BOARD_SIZE \in ProbeSizes
    /\ pc = "construct"
    /\ place = [board |-> Board(FALSE, 0), idx |-> 1, attempts |-> 0, free |-> 0]
    /\ user_board = Board(FALSE, 0)
    /\ computer_board = Board(TRUE, 0)
    /\ num = 0
    /\ winner = "none"
    /\ last = [op |-> "none", who |-> "none", ship |-> NoShip, cell |-> <<0, 0>>,
               exc |-> "none", ret |-> FALSE]

\* Board.__init__: the guard raises BoardSizeException, or the fields are set
Construct ==
    /\ pc = "construct"
    /\ \E hide \in BOOLEAN :
          IF BoardSizeException(BOARD_SIZE)
          THEN /\ pc' = "raised"
               /\ last' = [last EXCEPT !.op = "Board", !.exc = "BoardSizeException"]
               /\ UNCHANGED place
          ELSE /\ pc' = "constructed"
               /\ last' = [last EXCEPT !.op = "Board"]
               /\ place' = [place EXCEPT !.board = Board(hide, BOARD_SIZE)]
    /\ UNCHANGED <<BOARD_SIZE, user_board, computer_board, num, winner>>
    /\ UNCHANGED xo_vars

NextBoard == Construct

SpecBoard == InitBoard /\ [][NextBoard]_vars

\* Game(): both boards, then game_cycle
Init == InitSea

Next ==
    \/ \E who \in {"user_board", "computer_board"} :
          \/ PlaceAccept(who, FALSE)
          \/ PlaceReject(who)
          \/ PlaceRejectRun(who)
          \/ PlaceExhausted(who)
    \/ CastLots
    \/ Move("user")
    \/ Move("ai")

Spec == Init /\ [][Next]_vars

----------------------------------------------------------------------------
(* The XO program: a series between players that do not search, a series
   against a searching computer, and get_best_move on its own *)

\* the Sea Battle program not started
SeaIdle ==
    /\ BOARD_SIZE = 6
    /\ pc = "idle"
    /\ place = [board |-> Board(FALSE, 6), idx |-> 1, attempts |-> 0, free |-> 0]
    /\ user_board = Board(FALSE, 6)
    /\ computer_board = Board(TRUE, 6)
    /\ num = 0
    /\ winner = "none"

\* the state the main loop is entered in
InitXO(game_types) ==
    /\ SeaIdle
    /\ \E game_type \in game_types : \E lots \in cast_lots :
          /\ players = Players(game_type, lots)
          /\ whose_move = IF lots[1] = "X" THEN 0 ELSE 1
    /\ xo_board = get_board
    /\ remaining_moves = 9
    /\ cell_number = None
    /\ xo_pc = "loop"
    /\ rounds = 0
    /\ last = NoMove

\* human against human, human against ai_easy
InitSeries == InitXO({0, 2})

NextSeries ==
    \/ HumanMove(MaxRounds)
    \/ HumanQuit(MaxRounds)
    \/ EasyMove(MaxRounds)

SpecSeries == InitSeries /\ [][NextSeries]_vars

\* human against ai_normal, human against ai_impossible
InitAI == InitXO({1, 3})

NextAI ==
    \/ HumanMove(MaxAIRounds)
    \/ HumanQuit(MaxAIRounds)
    \/ NormalMove(MaxAIRounds)
    \/ ImpossibleMove(MaxAIRounds)

SpecAI == InitAI /\ [][NextAI]_vars

\* get_best_move on its own: boards with at most MaxEmpty blank cells and as
\* many "X" as "0" or one more, searched for either player, who holds the sign
\* that is to move
Marks(board_mask, sign) == Cardinality({c \in 1..9 : board_mask[c] = sign})

SearchBoards ==
    {b \in [1..9 -> {" ", "X", "0"}] :
        /\ Marks(b, " ") <= MaxEmpty
        /\ Marks(b, "X") - Marks(b, "0") \in {0, 1}}

ToMove(board_mask) == IF Marks(board_mask, "X") = Marks(board_mask, "0") THEN "X" ELSE "0"

\* a board given to the search as a test: "X" on cells 1 and 2, "X" to move
TwoInARow == [c \in 1..9 |-> IF c \in {1, 2} THEN "X" ELSE " "]

InitSearch ==
    /\ SeaIdle
    /\ xo_board \in SearchBoards \cup {TwoInARow}
    /\ whose_move \in {0, 1}
    /\ \E lots \in cast_lots :
          /\ lots[whose_move + 1] = IF xo_board = TwoInARow THEN "X" ELSE ToMove(xo_board)
          /\ players = Players(3, lots)
    /\ remaining_moves = Marks(xo_board, " ")
    /\ cell_number = None
    /\ xo_pc = "search"
    /\ rounds = 0
    /\ last = NoMove

\* get_best_move(board, player) is called and returns
Search ==
    /\ xo_pc = "search"
    /\ \E found \in {get_best_move(xo_board, whose_move = 1)} :
          /\ last' = [op |-> "search", who |-> whose_move, board |-> xo_board,
                      score |-> found.score, move |-> found.move]
          /\ xo_board' = found.board
    /\ xo_pc' = "searched"
    /\ UNCHANGED <<players, whose_move, remaining_moves, cell_number, rounds>>
    /\ UNCHANGED sea_vars

NextSearch == Search

SpecSearch == InitSearch /\ [][NextSearch]_vars

----------------------------------------------------------------------------
(* Properties of the Sea Battle game *)

\* two cells that are the same cell or touch by a side or a corner
Near(c, e) == Abs(c[1] - e[1]) <= 1 /\ Abs(c[2] - e[2]) <= 1

ShipCells(ship) == Range(cells(ship))

InPlay == pc \in {"game_cycle", "over"}

PlayBoards == {user_board, computer_board}

\* the cells of a board no shot has been resolved at
NotYetShot(board) == {cell \in Grid(board.size) : board.mask[cell] \notin {"X", "."}}

\* C1: on a board in play, Board.shot at a not-yet-shot cell of a ship is
\* resolved as a hit (True); with health > 1 the health of that ship drops by
\* exactly 1, no other ship changes and count stays; with health = 1 the health
\* becomes 0, count rises by exactly 1 and every neighbour of the ship on the
\* board is in occupy_cells afterwards. A shot at a cell of no ship that is
\* not yet in occupy_cells is a miss (False): the cell is marked ".", and no
\* ship and not the count changes.
C1_ShotOutcomes ==
    InPlay =>
      \A board \in PlayBoards : \A cell \in Grid(board.size) :
        LET res == shot(board, cell)
            struck == {i \in DOMAIN board.ships : cell \in ShipCells(board.ships[i])}
        IN /\ (struck # {} /\ cell \in NotYetShot(board)) =>
                /\ res.exc = "none" /\ res.ret = TRUE
                /\ Cardinality(struck) = 1
                /\ \A i \in DOMAIN board.ships :
                      res.board.ships[i] =
                        IF i \in struck
                        THEN [board.ships[i] EXCEPT !.health = @ - 1]
                        ELSE board.ships[i]
                /\ \A i \in struck :
                      /\ board.ships[i].health > 1 => res.board.count = board.count
                      /\ board.ships[i].health = 1 =>
                            /\ res.board.count = board.count + 1
                            /\ \A e \in Grid(board.size) :
                                  (\E c \in ShipCells(board.ships[i]) : Near(c, e))
                                      => e \in res.board.occupy_cells
                      /\ board.ships[i].health >= 1
           /\ (struck = {} /\ cell \notin board.occupy_cells) =>
                /\ res.exc = "none" /\ res.ret = FALSE
                /\ res.board.mask[cell] = "."
                /\ res.board.ships = board.ships
                /\ res.board.count = board.count

\* a shot has just destroyed a ship of length > 1 (so the ship had been hit at
\* health > 1 before) on a board that also shows a miss
C1_Witness ==
    /\ pc = "game_cycle"
    /\ last.op = "shot" /\ last.exc = "none" /\ last.ret
    /\ last.ship.length > 1 /\ last.ship.health = 1
    /\ \E board \in PlayBoards :
          /\ board.mask[last.cell] = "X"
          /\ board.count >= 1
          /\ \E cell \in Grid(board.size) : board.mask[cell] = "."

\* C1 as stated, for the cells of no ship: on a board in play every shot at a
\* not-yet-shot cell of no ship is a miss (False) that marks the cell ".".
C1_MissAtAnyCellOfNoShip ==
    InPlay =>
      \A board \in PlayBoards : \A cell \in NotYetShot(board) :
        ShipAt(board, cell) = NoShip =>
            LET res == shot(board, cell)
            IN /\ res.exc = "none" /\ res.ret = FALSE
               /\ res.board.mask[cell] = "."

\* C2: during a placement pass Board.add_ship accepts a ship exactly when every
\* cell of it is on the grid and none is in occupy_cells, and otherwise raises
\* WrongPositionShipException; so it rejects every ship with a cell off the
\* grid and every ship with a cell on, or next to (by a side or a corner), a
\* ship placed before.
C2_AddShipAccepts ==
    pc = "user_board" =>
      LET around == ((-1)..place.board.size) \X ((-1)..place.board.size)
          placed == UNION {ShipCells(place.board.ships[i]) : i \in DOMAIN place.board.ships}
          next_to_placed == {c \in around : \E e \in placed : Near(c, e)}
      IN \A length \in Range(ships) : \A orientation \in {0, 1} : \A coord \in around :
            LET ship == Ship(coord, length, orientation)
                inside == ShipCells(ship) \subseteq Grid(place.board.size)
                unoccupied == ShipCells(ship) \cap place.board.occupy_cells = {}
                touching == ShipCells(ship) \cap next_to_placed # {}
                exc == add_ship_exc(place.board, ship)
            IN /\ exc \in {"none", "WrongPositionShipException"}
               /\ (exc = "none") <=> (inside /\ unoccupied)
               /\ (~inside \/ touching) => exc = "WrongPositionShipException"

\* add_ship has just rejected a ship that lies on the grid and on no ship, but
\* next to one
C2_Witness ==
    /\ pc = "user_board"
    /\ last.op = "add_ship" /\ last.exc = "WrongPositionShipException"
    /\ \A c \in ShipCells(last.ship) :
          /\ c \in Grid(place.board.size)
          /\ \A i \in DOMAIN place.board.ships : c \notin ShipCells(place.board.ships[i])
    /\ \E c \in ShipCells(last.ship) : \E i \in DOMAIN place.board.ships :
          \E e \in ShipCells(place.board.ships[i]) : Near(c, e)

\* the lengths of the ships of a board, in the order they were added
Lengths(board) == [i \in DOMAIN board.ships |-> board.ships[i].length]

\* every ship on the grid, and no two ships sharing or touching cells
WellSeparated(board) ==
    /\ \A i \in DOMAIN board.ships : ShipCells(board.ships[i]) \subseteq Grid(board.size)
    /\ \A i, j \in DOMAIN board.ships :
          i # j => \A c \in ShipCells(board.ships[i]) :
                     \A e \in ShipCells(board.ships[j]) : ~Near(c, e)

\* C3: the board Game.random_board returns holds every ship of the catalog of
\* its grid size, every ship cell is on the grid, and no two ships share a cell
\* or have cells that touch by a side or a corner.
C3_ReturnedBoard ==
    pc = "computer_board" =>
      /\ Lengths(user_board) = catalog(user_board.size)
      /\ WellSeparated(user_board)

\* random_board has returned a board with a vertical and a horizontal ship of
\* more than one cell
C3_Witness ==
    /\ pc = "computer_board"
    /\ Len(user_board.ships) = Len(catalog(BOARD_SIZE))
    /\ \E i, j \in DOMAIN user_board.ships :
          /\ user_board.ships[i].length > 1 /\ user_board.ships[i].orientation = 1
          /\ user_board.ships[j].length > 1 /\ user_board.ships[j].orientation = 0

\* the cells of the board next to a cell of the ship, the ship's own included
Halo(board, ship) ==
    {e \in Grid(board.size) : \E c \in ShipCells(ship) : Near(c, e)}

\* C12: for every ship a placement pass can draw for the length it is placing,
\* a rejecting add_ship leaves the board (mask, occupy_cells, ships, count) as
\* it was; an accepting add_ship appends the ship, marks all its cells, puts
\* all its cells and all its in-grid neighbours into occupy_cells, and changes
\* the mask and occupy_cells nowhere else.
C12_AtomicPlacement ==
    pc = "user_board" =>
      LET board == place.board
          ship_length == catalog(BOARD_SIZE)[place.idx]
          sign == IF board.hide THEN " " ELSE "▓"
      IN \A d \in DrawRange(board.size, ship_length) :
            LET ship == DrawnShip(d, ship_length)
                res == add_ship(board, ship)
            IN /\ res.exc # "none" => res.board = board
               /\ res.exc = "none" =>
                     /\ res.board.ships = Append(board.ships, ship)
                     /\ res.board.occupy_cells = board.occupy_cells \cup Halo(board, ship)
                     /\ \A cell \in Grid(board.size) :
                           res.board.mask[cell] =
                               IF cell \in ShipCells(ship) THEN sign ELSE board.mask[cell]
                     /\ res.board.count = board.count

\* add_ship has just rejected a ship whose first cell is free and on the grid
\* and whose last cell is not, and the board of the pass holds ships
C12_Witness ==
    /\ pc = "user_board"
    /\ last.op = "add_ship" /\ last.exc = "WrongPositionShipException"
    /\ last.ship.length > 1
    /\ ~outside_board(place.board, cells(last.ship)[1])
    /\ cells(last.ship)[1] \notin place.board.occupy_cells
    /\ Len(place.board.ships) >= 1

\* C13: a pass of random_place makes at most 2000 calls of add_ship, counted
\* together for all ships: the count goes up by one with every call, also when
\* the pass goes on to the next ship; with the budget used up and ships left,
\* the pass reports failure and random_board starts a pass with an empty board
\* and a count of 0; random_board returns only a board with every ship of the
\* catalog.
C13_AttemptBudget ==
    /\ [](pc = "user_board" => place.attempts <= MaxAttempts)
    /\ [][pc = "user_board" =>
            /\ last'.op = "add_ship" => place.attempts < MaxAttempts
            /\ (last'.op = "add_ship" /\ pc' = pc) =>
                  /\ place'.attempts > place.attempts
                  /\ place'.idx = place.idx + 1 => place'.attempts = place.attempts + 1
            /\ (place.attempts = MaxAttempts /\ pc' = pc) =>
                  /\ last'.op = "random_place" /\ ~last'.ret
                  /\ place'.board = Board(FALSE, BOARD_SIZE)
                  /\ place'.attempts = 0 /\ place'.idx = 1
            /\ last'.op = "random_place" => place.attempts = MaxAttempts
            /\ pc' # pc => Len(user_board'.ships) = Len(catalog(BOARD_SIZE))]_vars

\* a pass that had placed ships has just reported failure and a new pass starts
C13_Witness ==
    /\ pc = "user_board"
    /\ last.op = "random_place" /\ ~last.ret
    /\ place.attempts = 0 /\ place.board.ships = <<>>

\* the side game_cycle lets move next
Mover == IF num % 2 # 0 THEN "user" ELSE "ai"

\* C7: in game_cycle a resolved shot that does not end the game is followed by
\* a move of the same side when it hit or destroyed a ship, and by a move of
\* the other side when it missed.
C7_ExtraMove ==
    [][(pc = "game_cycle" /\ pc' = "game_cycle"
        /\ <<user_board, computer_board>> # <<user_board', computer_board'>>)
       => /\ last'.op = "shot" /\ last'.exc = "none" /\ last'.who = Mover
          /\ last'.ret => Mover' = Mover
          /\ ~last'.ret => Mover' # Mover]_vars

\* the computer has hit a ship and is to move again
C7_Witness ==
    /\ pc = "game_cycle"
    /\ last.op = "shot" /\ last.exc = "none" /\ last.ret
    /\ last.who = "ai" /\ Mover = "ai"

\* C8: the game is over exactly when the destroyed-ship count of a board has
\* reached the number of ships placed on that board, and the winner is the side
\* that was shooting at that board.
C8_EndsWhenAllDestroyed ==
    InPlay =>
      /\ (pc = "over") <=>
            (\/ computer_board.count = Len(computer_board.ships)
             \/ user_board.count = Len(user_board.ships))
      /\ pc = "over" =>
            /\ winner = "user" => computer_board.count = Len(computer_board.ships)
            /\ winner = "computer" => user_board.count = Len(user_board.ships)
            /\ winner # "none"

\* C10: a cell at which a shot was resolved keeps its mark (X or .), and every
\* Board.shot at a cell with such a mark raises OccupiedCellException.
C10_AlreadyTargeted ==
    /\ [](InPlay =>
            \A board \in PlayBoards : \A cell \in Grid(board.size) :
                cell \notin NotYetShot(board)
                    => shot(board, cell).exc = "OccupiedCellException")
    /\ [][InPlay =>
            /\ \A cell \in Grid(BOARD_SIZE) :
                  /\ cell \notin NotYetShot(user_board)
                        => cell \notin NotYetShot(user_board')
                  /\ cell \notin NotYetShot(computer_board)
                        => cell \notin NotYetShot(computer_board')
            /\ (last'.op = "shot" /\ last'.exc = "none"
                 /\ <<user_board, computer_board>> # <<user_board', computer_board'>>)
                  => IF last'.who = "user"
                     THEN last'.cell \notin NotYetShot(computer_board')
                     ELSE last'.cell \notin NotYetShot(user_board')]_vars

\* a second shot at a cell where a shot had been resolved has just been refused
C10_Witness ==
    /\ pc = "game_cycle"
    /\ last.op = "shot" /\ last.exc = "OccupiedCellException"
    /\ LET board == IF last.who = "user" THEN computer_board ELSE user_board
       IN last.cell \in Grid(board.size) /\ last.cell \notin NotYetShot(board)

\* C11: in play Board.shot at a cell outside the board or at a cell already
\* shot at raises BoardOutsideException or OccupiedCellException and leaves the
\* board as it was; a step of game_cycle whose shot is refused changes neither
\* board, nor num, and the game stays in the same iteration, and the side to
\* move changes only in a step whose shot was resolved.
C11_RefusedShot ==
    /\ [](InPlay =>
            \A board \in PlayBoards : \A cell \in UserTargets \cup AITargets :
                LET res == shot(board, cell)
                IN /\ outside_board(board, cell) => res.exc = "BoardOutsideException"
                   /\ (~outside_board(board, cell) /\ cell \notin NotYetShot(board))
                         => res.exc = "OccupiedCellException"
                   /\ res.exc # "none" => res.board = board)
    /\ [][pc = "game_cycle" =>
            /\ (last'.op = "shot" /\ last'.exc # "none") =>
                  /\ user_board' = user_board /\ computer_board' = computer_board
                  /\ num' = num /\ pc' = pc /\ winner' = winner
            /\ (pc' = "game_cycle" /\ Mover' # Mover) =>
                  last'.op = "shot" /\ last'.exc = "none"]_vars

\* the user has just named a cell outside the board and is still to move
C11_Witness ==
    /\ pc = "game_cycle"
    /\ last.op = "shot" /\ last.exc = "BoardOutsideException"
    /\ last.who = "user" /\ Mover = "user"
    /\ \E cell \in Grid(BOARD_SIZE) : computer_board.mask[cell] \in {"X", "."}

\* the cells of a board that are no cell of a ship and touch a ship, by a
\* side or a corner, whose health is one of healths
HaloCells(board, healths) ==
    {e \in Grid(board.size) :
        /\ ShipAt(board, e) = NoShip
        /\ \E i \in DOMAIN board.ships :
              /\ board.ships[i].health \in healths
              /\ \E c \in ShipCells(board.ships[i]) : Near(c, e)}

\* C16, as stated: in play Board.shot raises OccupiedCellException only at a
\* cell a shot was resolved at before, and every cell next to a ship that was
\* never shot at is resolved as a miss.
C16_RefusedOnlyWhereShot ==
    InPlay =>
      \A board \in PlayBoards :
        /\ \A cell \in Grid(board.size) :
              shot(board, cell).exc = "OccupiedCellException"
                  => cell \notin NotYetShot(board)
        /\ \A cell \in HaloCells(board, 0..4) \cap NotYetShot(board) :
              LET res == shot(board, cell)
              IN res.exc = "none" /\ res.ret = FALSE

\* C16: in play Board.shot raises OccupiedCellException exactly at the cells a
\* shot was resolved at before and at the cells next to a destroyed ship; every
\* never-shot cell next to a ship and next to no destroyed ship is resolved as
\* a miss, so the cells placement had put in occupy_cells are open again.
C16_RefusedCells ==
    InPlay =>
      \A board \in PlayBoards :
        LET revealed == HaloCells(board, {0})
        IN /\ \A cell \in Grid(board.size) :
                 shot(board, cell).exc = "OccupiedCellException"
                     <=> (cell \notin NotYetShot(board) \/ cell \in revealed)
           /\ \A cell \in (HaloCells(board, 0..4) \cap NotYetShot(board))
                              \ revealed :
                 LET res == shot(board, cell)
                 IN /\ res.exc = "none" /\ res.ret = FALSE
                    /\ res.board.mask[cell] = "."

\* a shot at a never-shot cell next to a destroyed ship has just been refused,
\* on a board where a never-shot cell next to a ship afloat is still open
C16_Witness ==
    /\ pc = "game_cycle"
    /\ last.op = "shot" /\ last.exc = "OccupiedCellException"
    /\ LET board == IF last.who = "user" THEN computer_board ELSE user_board
       IN /\ last.cell \in NotYetShot(board)
          /\ last.cell \in HaloCells(board, {0})
          /\ \E cell \in HaloCells(board, 1..4) \cap NotYetShot(board) :
                cell \notin board.occupy_cells

\* the pass of random_place that is running places its last ship and returns
PassReturns == pc \in {"user_board", "computer_board"} /\ pc' # pc

\* occupy_cells of both boards in play keeps every cell it has
GrowsInPlay ==
    pc \in {"cast_lots", "game_cycle"} =>
        /\ user_board.occupy_cells \subseteq user_board'.occupy_cells
        /\ computer_board.occupy_cells \subseteq computer_board'.occupy_cells

\* occupy_cells of the board of a pass keeps every cell it has while the pass
\* goes on
GrowsInPass ==
    (pc \in {"user_board", "computer_board"} /\ pc' = pc /\ last'.op = "add_ship") =>
        place.board.occupy_cells \subseteq place'.board.occupy_cells

\* the board a pass returns, as game_cycle gets it
Returned == IF pc = "user_board" THEN user_board' ELSE computer_board'

\* C17, as stated: a cell in occupy_cells of a board stays there through the
\* placements of the successful pass, the return of the pass and all shots.
C17_OccupyCellsNeverShrinks ==
    [][/\ GrowsInPass
       /\ PassReturns => place.board.occupy_cells \subseteq Returned.occupy_cells
       /\ GrowsInPlay]_vars

\* C17: a cell in occupy_cells of a board stays there through the placements
\* of a pass, and through all shots; in between, the return of the successful
\* pass (Board.begin) empties occupy_cells once.
C17_OccupyCellsShrinksOnce ==
    [][/\ GrowsInPass
       /\ PassReturns =>
             /\ place.board.occupy_cells # {}
             /\ Returned.occupy_cells = {}
             /\ Len(Returned.ships) = Len(place.board.ships) + 1
       /\ GrowsInPlay]_vars

\* in play a board has the neighbours of a destroyed ship in occupy_cells and
\* not those of a ship afloat, which placement had put there
C17_Witness ==
    /\ pc = "game_cycle"
    /\ \E board \in PlayBoards :
          /\ board.count >= 1
          /\ HaloCells(board, {0}) \subseteq board.occupy_cells
          /\ \E cell \in HaloCells(board, 1..4) :
                cell \notin board.occupy_cells

\* the board a pass is placing ships on, or the two boards in play
LiveBoards ==
    IF pc \in {"user_board", "computer_board"} THEN {place.board} ELSE PlayBoards

\* the four corner cells of a grid
Corners(size) == {0, size - 1} \X {0, size - 1}

\* C21: occupy_cells of a board holds only cells of the grid, during placement
\* and in play. What an accepted add_ship adds besides the cells of the ship
\* is exactly the set of the ship's neighbours on the grid that were not in
\* occupy_cells before, and a ship placed on any of them afterwards is
\* rejected. A ship of length 1 at a corner of an empty grid (6x6 included)
\* adds exactly 3 cells besides its own.
C21_HaloClipped ==
    /\ \A board \in LiveBoards : board.occupy_cells \subseteq Grid(board.size)
    /\ pc \in {"user_board", "computer_board"} =>
          LET board == place.board
              ship_length == catalog(BOARD_SIZE)[place.idx]
          IN \A d \in AcceptedDraws(board, ship_length) :
                LET ship == DrawnShip(d, ship_length)
                    res == add_ship(board, ship)
                    added == (res.board.occupy_cells \ board.occupy_cells) \ ShipCells(ship)
                IN /\ added = {e \in Grid(board.size) \ ShipCells(ship) :
                                  /\ e \notin board.occupy_cells
                                  /\ \E c \in ShipCells(ship) : Near(c, e)}
                   /\ res.board.occupy_cells \subseteq Grid(board.size)
                   /\ \A e \in added :
                         add_ship_exc(res.board, Ship(e, 1, 0)) = "WrongPositionShipException"
    /\ \A corner \in Corners(BOARD_SIZE) :
          LET empty == Board(FALSE, BOARD_SIZE)
              res == add_ship(empty, Ship(corner, 1, 0))
          IN /\ res.exc = "none"
             /\ Cardinality(res.board.occupy_cells \ {corner}) = 3
             /\ \A e \in res.board.occupy_cells : e \in Grid(BOARD_SIZE) /\ Near(corner, e)

\* in play on a 6x6 grid a shot has destroyed a ship that lies at a corner, and
\* the neighbours of the ship on the grid are in occupy_cells
C21_Witness ==
    /\ BOARD_SIZE = 6
    /\ pc = "game_cycle"
    /\ last.op = "shot" /\ last.exc = "none" /\ last.ret
    /\ \E board \in PlayBoards : \E i \in DOMAIN board.ships :
          /\ board.ships[i].health = 0
          /\ board.ships[i].coord \in Corners(6)
          /\ last.cell \in ShipCells(board.ships[i])
          /\ Halo(board, board.ships[i]) \subseteq board.occupy_cells

\* the ships of the list that random_place leaves out on a grid of this size
dropped(size) == SubSeq(ships, 1, Len(ships) - Len(catalog(size)))

\* C22: the list of random_place holds one ship of length 4, two of length 3,
\* three of length 2 and four of length 1, and on the grid of the game no ship
\* that is placed is longer than a ship that is left out.
C22_LongestDroppedFirst ==
    /\ \A length \in 1..4 :
          Cardinality({i \in DOMAIN ships : ships[i] = length}) = 5 - length
    /\ \A i \in DOMAIN catalog(BOARD_SIZE) : \A j \in DOMAIN dropped(BOARD_SIZE) :
          catalog(BOARD_SIZE)[i] <= dropped(BOARD_SIZE)[j]

\* the board the side about to move shoots at
OpponentBoard == IF Mover = "user" THEN computer_board ELSE user_board

\* C24: while game_cycle runs, the board the side to move shoots at has a cell
\* of the grid that is not in occupy_cells, so a shot can be resolved; and on
\* both boards every cell of a ship that has not been hit is outside
\* occupy_cells.
C24_LegalTargetLeft ==
    pc = "game_cycle" =>
        /\ Grid(BOARD_SIZE) \ OpponentBoard.occupy_cells # {}
        /\ \A board \in PlayBoards : \A i \in DOMAIN board.ships :
              \A cell \in ShipCells(board.ships[i]) :
                  board.mask[cell] # "X" => cell \notin board.occupy_cells

\* C26: Board() called with a size below 5 or above 10 raises
\* BoardSizeException, so a board that has been constructed has a size of
\* 5..10.
C26_SizeChecked ==
    /\ pc = "raised" <=>
          (last.op = "Board" /\ (BOARD_SIZE < MinSize \/ BOARD_SIZE > LargestSize))
    /\ pc = "constructed" => place.board.size \in MinSize..LargestSize

\* the boards of random_place: the one the pass is placing ships on and the
\* one random_board has returned
PlacedBoards == {place.board, user_board}

\* C27: on every board of random_place a vertical ship has a column of at
\* most size - 1 - length and a horizontal ship a row of at most
\* size - 1 - length, as every draw has; so no vertical ship has a cell in the
\* last column, no horizontal ship a cell in the last row, and no ship has the
\* cell (size - 1, size - 1).
C27_LastCellFree ==
    /\ \A length \in Range(catalog(BOARD_SIZE)) :
          \A d \in DrawRange(BOARD_SIZE, length) :
              IF d[1] # 0 THEN d[3] <= BOARD_SIZE - 1 - length
              ELSE d[2] <= BOARD_SIZE - 1 - length
    /\ \A board \in PlacedBoards : \A i \in DOMAIN board.ships :
          LET ship == board.ships[i]
          IN /\ ship.orientation # 0 =>
                   /\ ship.coord[2] <= board.size - 1 - ship.length
                   /\ \A cell \in ShipCells(ship) : cell[2] # board.size - 1
             /\ ship.orientation = 0 =>
                   /\ ship.coord[1] <= board.size - 1 - ship.length
                   /\ \A cell \in ShipCells(ship) : cell[1] # board.size - 1
             /\ <<board.size - 1, board.size - 1>> \notin ShipCells(ship)

\* random_board has returned a board with a ship in the last row and a ship
\* in the last column
C27_Witness ==
    /\ pc = "computer_board"
    /\ Len(user_board.ships) = Len(catalog(BOARD_SIZE))
    /\ \E i, j \in DOMAIN user_board.ships :
          /\ \E cell \in ShipCells(user_board.ships[i]) : cell[1] = BOARD_SIZE - 1
          /\ \E cell \in ShipCells(user_board.ships[j]) : cell[2] = BOARD_SIZE - 1
    /\ user_board.mask[<<BOARD_SIZE - 1, BOARD_SIZE - 1>>] = " "

----------------------------------------------------------------------------
(* Properties of the XO game *)

SearchDriven == last.op = "search"

\* C4: in a series against ai_normal or ai_impossible, every cell that
\* get_best_move(board) returns to the main loop is a cell 1..9 that is blank
\* on the board it was called with: not an occupied cell, not None, not ''.
C4_SearchReturnsEmptyCell ==
    SearchDriven =>
        /\ last.move \in 1..9
        /\ last.board[last.move] = " "
        /\ last.move # None /\ last.move # EmptyStr
        /\ cell_number = last.move

\* ai_normal has searched a board on which every move loses, and ai_impossible
\* a board with marks of both players
C4_Witness ==
    /\ SearchDriven
    /\ \/ players[1].who_playing = "ai_normal" /\ last.score = -10
       \/ /\ players[1].who_playing = "ai_impossible"
          /\ Marks(last.board, "X") >= 1 /\ Marks(last.board, "0") >= 1

\* C5: get_best_move on the empty board, run for the player who moves first,
\* returns the score 0.
C5_EmptyBoardIsDraw ==
    (SearchDriven /\ last.board = get_board) => last.score = 0

\* ai_impossible, holding "X", has opened a round with a searched move
C5_Witness ==
    /\ SearchDriven /\ last.board = get_board
    /\ players[1].who_playing = "ai_impossible"
    /\ Marks(xo_board, "X") = 1 /\ Marks(xo_board, "0") = 0

\* the score of every blank cell of the searched board, for the side searched for
CellScores ==
    LET player == last.who = 1
        sign == players[last.who].sign
    IN [c \in Range(get_empty_cells(last.board)) |->
          get_best_move([last.board EXCEPT ![c] = sign], ~player).score]

\* the blank cells whose score is the best one for the side searched for
OptimalCells ==
    LET scores == CellScores
    IN {c \in DOMAIN scores : \A e \in DOMAIN scores :
          IF last.who = 1 THEN scores[c] >= scores[e] ELSE scores[c] <= scores[e]}

\* C6: on a board that is not finished, get_best_move returns the smallest
\* cell number among the blank cells whose score is the best for the side it is
\* run for (the greatest for the maximizing side, the smallest for the
\* minimizing side), with that score.
C6_FirstOptimalCell ==
    (xo_pc = "searched" /\ last.move # None) =>
        LET optimal == OptimalCells
        IN /\ last.move \in optimal
           /\ \A c \in optimal : last.move <= c
           /\ last.score = CellScores[last.move]

\* the minimizing side was searched for on a board where several cells are
\* optimal and the first blank cell is not
C6_Witness ==
    /\ xo_pc = "searched" /\ last.move # None
    /\ last.who = 0
    /\ Cardinality(OptimalCells) >= 2
    /\ get_empty_cells(last.board)[1] \notin OptimalCells

Lines ==
    {{1, 2, 3}, {4, 5, 6}, {7, 8, 9}, {1, 4, 7}, {2, 5, 8}, {3, 6, 9}, {1, 5, 9}, {3, 5, 7}}

\* the step is a move: a player has marked a cell of the board
Moved == last'.op \in {"human", "ai_easy", "random", "search"}

\* the board of the state with the mover's sign in the cell just chosen
Marked == [xo_board EXCEPT ![cell_number'] = players[whose_move].sign]

\* the move just chosen completes a line of the mover's sign
CompletesLine ==
    \E line \in Lines : \A c \in line : Marked[c] = players[whose_move].sign

\* C14: a move that completes one of the eight lines ends the round at once:
\* the mover's win count goes up by one, the other's stays, the board is empty
\* again; this also when the move filled the last cell.  A move that completes
\* no line and fills the last cell ends the round as a draw: the board is empty
\* again, no win count changes, the series goes on.  Any other move leaves its
\* mark on the board and the round goes on.
C14_RoundEnds ==
    [][(xo_pc = "loop" /\ Moved) =>
         LET other == 1 - whose_move
         IN /\ CompletesLine =>
                  /\ players'[whose_move].win = players[whose_move].win + 1
                  /\ players'[other].win = players[other].win
                  /\ xo_board' = get_board
                  /\ rounds' = rounds + 1
            /\ (~CompletesLine /\ \A c \in 1..9 : Marked[c] # " ") =>
                  /\ players'[0].win = players[0].win
                  /\ players'[1].win = players[1].win
                  /\ xo_board' = get_board
                  /\ rounds' = rounds + 1
                  /\ xo_pc' = "loop"
            /\ (~CompletesLine /\ \E c \in 1..9 : Marked[c] = " ") =>
                  /\ xo_board' = Marked
                  /\ players' = players
                  /\ rounds' = rounds]_vars

\* the ninth mark of a round has completed a line and was counted as a win
C14_Witness ==
    /\ last.op = "human"
    /\ Len(get_empty_cells(last.board)) = 1
    /\ get_winning([last.board EXCEPT ![last.move] = players[last.who].sign])
    /\ xo_board = get_board
    /\ players[last.who].win = 1 /\ players[1 - last.who].win = 0

\* the move just chosen completes no line and fills the last blank cell
DrawsRound == ~CompletesLine /\ \A c \in 1..9 : Marked[c] # " "

\* C15, as stated: after every move that does not win the round the next
\* mover is the other player.
C15_OtherPlayerUnlessWin ==
    [][(xo_pc = "loop" /\ Moved /\ ~CompletesLine) => whose_move' = 1 - whose_move]_vars

\* C15: after a move that ends no round the next mover is the other player;
\* after a move that wins the round the winner moves again, now holding "X";
\* after a move that ends the round in a draw lots are cast again and the
\* holder of "X" moves, who may be either player.
C15_TurnHandOver ==
    [][(xo_pc = "loop" /\ Moved) =>
         /\ (~CompletesLine /\ ~DrawsRound) =>
               /\ whose_move' = 1 - whose_move
               /\ players' = players
         /\ CompletesLine =>
               /\ whose_move' = whose_move
               /\ players'[whose_move'].sign = "X"
         /\ DrawsRound =>
               /\ players'[whose_move'].sign = "X"
               /\ players'[1 - whose_move'].sign = "0"]_vars

\* a round has ended in a draw and the player who made its last move moves
\* first in the next one
C15_Witness ==
    /\ xo_pc = "loop"
    /\ last.op \in {"human", "ai_easy"}
    /\ Len(get_empty_cells(last.board)) = 1
    /\ xo_board = get_board
    /\ players[0].win = 0 /\ players[1].win = 0
    /\ whose_move = last.who
    /\ players[whose_move].sign = "X"

RECURSIVE negamax(_, _)
RECURSIVE negamax_cells(_, _, _, _, _)

\* the blank cells from the i-th on, in ascending order: the value of a cell is
\* the negated value of the board with the mover's sign in it for the other
\* side, and a cell replaces the best one only with a strictly greater value
negamax_cells(board_mask, player, cells_empty, i, best) ==
    IF i > Len(cells_empty) THEN best
    ELSE LET cell == cells_empty[i]
             sign == players[IF player THEN 1 ELSE 0].sign
             value == -negamax([board_mask EXCEPT ![cell] = sign], ~player).score
         IN IF value > best.score
            THEN negamax_cells(board_mask, player, cells_empty, i + 1,
                               [score |-> value, move |-> cell])
            ELSE negamax_cells(board_mask, player, cells_empty, i + 1, best)

\* symmetric negamax: the value of a board for the side to move, -10 when the
\* other side has completed a line, 0 on a full board
negamax(board_mask, player) ==
    IF get_winning(board_mask) THEN [score |-> -10, move |-> None]
    ELSE IF get_empty_cells(board_mask) = <<>> THEN [score |-> 0, move |-> None]
    ELSE negamax_cells(board_mask, player, get_empty_cells(board_mask), 1,
                       [score |-> -Inf, move |-> EmptyStr])

\* the searched board is not finished: no line is complete and a cell is blank
Unfinished(board_mask) ==
    ~get_winning(board_mask) /\ get_empty_cells(board_mask) # <<>>

\* C18: on every unfinished board, for either side to move, get_best_move
\* returns the cell that symmetric negamax chooses, and the negamax value of
\* the board: as it is for the maximizing side, negated for the minimizing one.
C18_SameCellAsNegamax ==
    (xo_pc = "searched" /\ Unfinished(last.board)) =>
        LET found == negamax(last.board, last.who = 1)
        IN /\ last.move = found.move
           /\ last.move \in 1..9
           /\ last.score = IF last.who = 1 THEN found.score ELSE -found.score

\* the minimizing side was searched for on a board with four or more blank
\* cells, and wins by a cell that is not the first blank one
C18_Witness ==
    /\ xo_pc = "searched" /\ Unfinished(last.board)
    /\ last.who = 0 /\ last.score = -10
    /\ Len(get_empty_cells(last.board)) >= 4
    /\ last.move # get_empty_cells(last.board)[1]
    /\ negamax(last.board, FALSE).score = 10

\* the blank cells of a board that complete a line when sign is put in them
CompletingCells(board_mask, sign) ==
    {c \in Range(get_empty_cells(board_mask)) :
        \E line \in Lines : c \in line /\ \A e \in line \ {c} : board_mask[e] = sign}

C20_BoardRestored ==
    xo_pc = "searched" =>
        /\ xo_board = last.board
        /\ last.move \in 1..9 => xo_board[last.move] = " "
        /\ \A c \in Range(get_empty_cells(last.board)) :
              LET trial == [last.board EXCEPT ![c] = players[last.who].sign]
              IN get_best_move(trial, last.who # 1).board = trial

\* a search of three plies or more has returned a cell
C20_Witness ==
    /\ xo_pc = "searched" /\ last.op = "search"
    /\ Len(get_empty_cells(last.board)) >= 3
    /\ last.move \in 1..9
    /\ Marks(xo_board, " ") = Len(get_empty_cells(last.board))

\* the series is played against ai_impossible
Impossible == players[1].who_playing = "ai_impossible"

\* C23: against ai_impossible the win count of the human (player 0) stays 0,
\* whoever holds "X" and moves first and whatever cells the human names: a
\* move that ends the round is a win of the computer or a draw, and no move of
\* the human completes a line.
C23_HumanNeverWins ==
    /\ [](Impossible => players[0].win = 0)
    /\ [][(Impossible /\ xo_pc = "loop" /\ Moved) =>
            /\ players'[0].win = players[0].win
            /\ whose_move = 0 => ~CompletesLine
            /\ rounds' # rounds =>
                  \/ players'[1].win = players[1].win + 1 /\ whose_move = 1
                  \/ players'[1].win = players[1].win /\ DrawsRound]_vars

\* ai_impossible, moving second with "0", has won a round by a searched move
C23_Witness ==
    /\ Impossible /\ last.op = "search"
    /\ Marks(last.board, "X") = Marks(last.board, "0") + 1
    /\ xo_board = get_board
    /\ players[1].win = 1 /\ players[0].win = 0

\* C25: in the series one player holds "X" and the other "0"; on the empty
\* board of a round's start the player to move holds "X"; and the board has as
\* many "X" as "0", or one "X" more, the player to move holding "X" exactly when
\* the counts are equal.
C25_SignsAndMarks ==
    xo_pc \in {"loop", "over"} =>
        /\ {players[0].sign, players[1].sign} = {"X", "0"}
        /\ xo_board = get_board => players[whose_move].sign = "X"
        /\ Marks(xo_board, "X") - Marks(xo_board, "0") \in {0, 1}
        /\ xo_pc = "loop" =>
              (players[whose_move].sign = "X"
                  <=> Marks(xo_board, "X") = Marks(xo_board, "0"))

\* a round has just been won by the player who held "0" in it; the winner
\* holds "X" now and is to move on the empty board
C25_Witness ==
    /\ xo_pc = "loop" /\ xo_board = get_board
    /\ last.op \in {"human", "ai_easy"}
    /\ Marks(last.board, "X") = Marks(last.board, "0") + 1
    /\ get_winning([last.board EXCEPT ![last.move] = "0"])
    /\ whose_move = last.who
    /\ players[last.who].sign = "X" /\ players[last.who].win = 1

====
